---------------------------- MODULE Spec2Model ----------------------------
(***************************************************************************)
(* fullsend: a Twilio client library.                                      *)
(*                                                                         *)
(*   src/src/auth.rs     AuthMethod                                        *)
(*   src/src/client.rs   Client, ClientBuilder, SendError, send_message    *)
(*   src/src/message.rs  Message, MessageBuilder                           *)
(*                                                                         *)
(* The state is one ClientBuilder, one MessageBuilder, the value returned  *)
(* by the most recent build() of each, and the progress of one             *)
(* send_message call (it suspends once, at the .await of the POST).        *)
(***************************************************************************)
EXTENDS Integers, Sequences, FiniteSets, TLC

VARIABLES
    cb,          \* the ClientBuilder { account_sid, auth }
    cbBefore,    \* *self as the most recent ClientBuilder::build found it
    cbRet,       \* what the most recent ClientBuilder::build returned
    cbPrevRet,   \* what the build before that returned, when no setter ran between the two
    cbErrSeen,   \* some build() of this ClientBuilder has returned an Err
    cbLast,      \* per field of cb, the most recent call that stored into it
    mb,          \* the MessageBuilder, or Moved once build(self) has consumed it
    mbBefore,    \* self as the most recent MessageBuilder::build received it
    mbRet,       \* what the most recent MessageBuilder::build returned
    mbLast,      \* per field of mb, the most recent call that stored into it
    sendPc,      \* send_message: "idle", "awaiting" (at .send().await), "done"
    request,     \* the POST handed to reqwest by the current send_message call
    calls,       \* how many times send_message has been called
    posts,       \* how many POSTs have been handed to reqwest
    twilio_result, \* what .send().await resolved to
    sendRet      \* what the most recent send_message returned

clientVars == <<cb, cbBefore, cbRet, cbPrevRet, cbErrSeen, cbLast>>
messageVars == <<mb, mbBefore, mbRet, mbLast>>
sendVars == <<sendPc, request, calls, posts, twilio_result, sendRet>>
vars == <<cb, cbBefore, cbRet, cbPrevRet, cbErrSeen, cbLast,
          mb, mbBefore, mbRet, mbLast,
          sendPc, request, calls, posts, twilio_result, sendRet>>

---------------------------------------------------------------------------
(* Bounds and the values the callers pass in.                              *)

\* longest list handed to media_urls
MaxMedia == 2
\* send_message calls one caller makes with the same Client and Message
MaxSends == 2

\* The empty string is a value like any other: the tests pass "" everywhere.
AccountSids == {"", "AC1"}
Tokens == {"", "tok"}
Keys == {"", "KEY"}
Secrets == {"", "SECRET"}
Tos == {"", "+15551234567"}
Froms == {"+15559876543"}
ServiceSids == {"MG1"}
Bodies == {"hi"}
ContentSids == {"HX1"}
Urls == {"u1", "u2"}
VariableMaps == {[name |-> "Ann"]}

RECURSIVE SeqsUpTo(_, _)
SeqsUpTo(S, n) ==
    IF n = 0 THEN {<<>>}
    ELSE LET shorter == SeqsUpTo(S, n - 1)
         IN shorter \cup {Append(s, x) : s \in {t \in shorter : Len(t) = n - 1}, x \in S}

UrlLists == SeqsUpTo(Urls, MaxMedia)

---------------------------------------------------------------------------
(* Option and Result.                                                      *)

None == [tag |-> "None"]
Some(v) == [tag |-> "Some", val |-> v]
is_some(o) == o.tag = "Some"
is_none(o) == o.tag = "None"
Opt(S) == {None} \cup {Some(v) : v \in S}

Ok(v) == [tag |-> "Ok", val |-> v]
Err(e) == [tag |-> "Err", err |-> e]
NoResult == [tag |-> "NoResult"]
IsOk(r) == r.tag = "Ok"
IsErr(r) == r.tag = "Err"

---------------------------------------------------------------------------
(* auth.rs                                                                 *)

AccountAuthToken(token) == [variant |-> "AccountAuthToken", token |-> token]
APIKey(key, secret) == [variant |-> "APIKey", key |-> key, secret |-> secret]
AuthMethod ==
    {AccountAuthToken(t) : t \in Tokens} \cup {APIKey(k, s) : k \in Keys, s \in Secrets}

---------------------------------------------------------------------------
(* client.rs: ClientBuilder                                                *)

Client(account_sid, auth) == [account_sid |-> account_sid, auth |-> auth]

ClientBuilder_new == [account_sid |-> None, auth |-> None]

ClientBuilderStates == [account_sid : Opt(AccountSids), auth : Opt(AuthMethod)]

\* build() with its two checks in the other order.
ClientBuilder_build_auth_first(self) ==
    IF is_none(self.auth) THEN Err("NoAuthMethodSet")
    ELSE IF is_none(self.account_sid) THEN Err("NoAccountSidSet")
    ELSE Ok(Client(self.account_sid.val, self.auth.val))

\* The value build(&self) returns.
ClientBuilder_build(self) ==
    IF is_none(self.account_sid) THEN Err("NoAccountSidSet")
    ELSE IF is_none(self.auth) THEN Err("NoAuthMethodSet")
    ELSE Ok(Client(self.account_sid.val, self.auth.val))

\* build() moving the account SID out (Option::take) instead of cloning it.
ClientBuilder_after_build_takes(self) == [self EXCEPT !.account_sid = None]

\* build() resetting the builder when validation fails.
ClientBuilder_after_build_resets_on_err(self) ==
    IF is_some(self.account_sid) /\ is_some(self.auth) THEN self
    ELSE [account_sid |-> None, auth |-> None]

\* What build(&self) leaves in *self: it clones the fields out, so everything.
ClientBuilder_after_build(self) == self

ClientBuilder_account_sid(self, account_sid) ==
    [self EXCEPT !.account_sid = Some(account_sid)]

ClientBuilder_api_key(self, key, secret) ==
    [self EXCEPT !.auth = Some(APIKey(key, secret))]

\* auth_token() that does not displace an API key already stored.
ClientBuilder_auth_token_keeps_api_key(self, token) ==
    IF is_some(self.auth) /\ self.auth.val.variant = "APIKey" THEN self
    ELSE [self EXCEPT !.auth = Some(AccountAuthToken(token))]

ClientBuilder_auth_token(self, token) ==
    [self EXCEPT !.auth = Some(AccountAuthToken(token))]

\* no call has stored into the field since the builder was created
NoCall == [op |-> "none"]
NoClientCalls == [account_sid |-> NoCall, auth |-> NoCall]
\* no build() has looked at the builder since it last changed
NoSelf == [tag |-> "NoSelf"]

\* A setter returns &mut Self, so the value of the last build() is no longer
\* the value of the last call on the builder.
SetterOnClientBuilder(next) ==
    /\ cb' = next
    /\ cbRet' = NoResult
    /\ cbPrevRet' = NoResult
    /\ cbBefore' = NoSelf
    /\ UNCHANGED cbErrSeen

\* Client::builder(): a fresh ClientBuilder::default().
ClientBuilderNew ==
    /\ cb' = ClientBuilder_new
    /\ cbBefore' = NoSelf
    /\ cbRet' = NoResult
    /\ cbPrevRet' = NoResult
    /\ cbErrSeen' = FALSE
    /\ cbLast' = NoClientCalls
    /\ UNCHANGED <<messageVars, sendVars>>

AccountSid ==
    \E account_sid \in AccountSids :
        /\ SetterOnClientBuilder(ClientBuilder_account_sid(cb, account_sid))
        /\ cbLast' = [cbLast EXCEPT !.account_sid =
                         [op |-> "account_sid", account_sid |-> account_sid]]
        /\ UNCHANGED <<messageVars, sendVars>>

ApiKey ==
    \E key \in Keys, secret \in Secrets :
        /\ SetterOnClientBuilder(ClientBuilder_api_key(cb, key, secret))
        /\ cbLast' = [cbLast EXCEPT !.auth =
                         [op |-> "api_key", key |-> key, secret |-> secret]]
        /\ UNCHANGED <<messageVars, sendVars>>

AuthToken ==
    \E token \in Tokens :
        /\ SetterOnClientBuilder(ClientBuilder_auth_token(cb, token))
        /\ cbLast' = [cbLast EXCEPT !.auth = [op |-> "auth_token", token |-> token]]
        /\ UNCHANGED <<messageVars, sendVars>>

ClientBuild ==
    /\ cbBefore' = cb
    /\ cbRet' = ClientBuilder_build(cb)
    /\ cbPrevRet' = cbRet
    /\ cb' = ClientBuilder_after_build(cb)
    /\ cbErrSeen' = (cbErrSeen \/ IsErr(ClientBuilder_build(cb)))
    /\ UNCHANGED <<cbLast, messageVars, sendVars>>

NextClient == ClientBuilderNew \/ AccountSid \/ ApiKey \/ AuthToken \/ ClientBuild

---------------------------------------------------------------------------
(* message.rs: MessageBuilder                                              *)

Message(self, to) ==
    [body |-> self.body,
     content_sid |-> self.content_sid,
     content_variables |-> self.content_variables,
     from |-> self.from,
     media_urls |-> self.media_urls,
     messaging_service_sid |-> self.messaging_service_sid,
     to |-> to]

MessageBuilder_new ==
    [body |-> None,
     content_sid |-> None,
     content_variables |-> None,
     from |-> None,
     media_urls |-> None,
     messaging_service_sid |-> None,
     to |-> None]

MessageBuilderStates ==
    [body : Opt(Bodies),
     content_sid : Opt(ContentSids),
     content_variables : Opt(VariableMaps),
     from : Opt(Froms),
     media_urls : Opt(UrlLists),
     messaging_service_sid : Opt(ServiceSids),
     to : Opt(Tos)]

\* The value build(self) returns.
MessageBuilder_build(self) ==
    IF is_none(self.to) THEN Err("NoToSet")
    ELSE IF is_none(self.from) /\ is_none(self.messaging_service_sid)
        THEN Err("NoSenderSet")
    ELSE IF is_none(self.body) /\ is_none(self.media_urls) /\ is_none(self.content_sid)
        THEN Err("NoMessageSet")
    ELSE Ok(Message(self, self.to.val))

\* build(self) takes the builder by value: the caller's binding is moved
\* from, whether build returns Ok or Err.
Moved == [tag |-> "Moved"]
MessageBuilder_after_build(self) == Moved

MessageBuilder_body(self, body) == [self EXCEPT !.body = Some(body)]
MessageBuilder_content_sid(self, content_sid) ==
    [self EXCEPT !.content_sid = Some(content_sid)]
\* content_variables() ignored unless a content SID is already stored.
MessageBuilder_content_variables_needs_sid(self, content_variables) ==
    IF is_some(self.content_sid)
    THEN [self EXCEPT !.content_variables = Some(content_variables)]
    ELSE self

MessageBuilder_content_variables(self, content_variables) ==
    [self EXCEPT !.content_variables = Some(content_variables)]
MessageBuilder_from(self, from) == [self EXCEPT !.from = Some(from)]
\* media_url() pushing onto the list already stored.
MessageBuilder_media_url_appends(self, media_url) ==
    [self EXCEPT !.media_urls =
        IF is_some(@) THEN Some(Append(@.val, media_url)) ELSE Some(<<media_url>>)]

MessageBuilder_media_url(self, media_url) ==
    [self EXCEPT !.media_urls = Some(<<media_url>>)]
MessageBuilder_media_urls(self, media_urls) ==
    [self EXCEPT !.media_urls = Some(media_urls)]
MessageBuilder_messaging_service_sid(self, messaging_service_sid) ==
    [self EXCEPT !.messaging_service_sid = Some(messaging_service_sid)]
MessageBuilder_to(self, to) == [self EXCEPT !.to = Some(to)]

\* Every setter takes self by value and returns it: it needs a builder that
\* has not been moved into build().
NoMessageCalls ==
    [body |-> NoCall,
     content_sid |-> NoCall,
     content_variables |-> NoCall,
     from |-> NoCall,
     media_urls |-> NoCall,
     messaging_service_sid |-> NoCall,
     to |-> NoCall]

SetterOnMessageBuilder(next, field, call) ==
    /\ mb # Moved
    /\ mb' = next
    /\ mbBefore' = NoSelf
    /\ mbRet' = NoResult
    /\ mbLast' = [mbLast EXCEPT ![field] = call]
    /\ UNCHANGED <<clientVars, sendVars>>

\* Message::builder(): a fresh MessageBuilder::default().
MessageBuilderNew ==
    /\ mb' = MessageBuilder_new
    /\ mbBefore' = NoSelf
    /\ mbRet' = NoResult
    /\ mbLast' = NoMessageCalls
    /\ UNCHANGED <<clientVars, sendVars>>

Body ==
    \E body \in Bodies :
        SetterOnMessageBuilder(MessageBuilder_body(mb, body),
                               "body", [op |-> "body", body |-> body])

ContentSid ==
    \E content_sid \in ContentSids :
        SetterOnMessageBuilder(MessageBuilder_content_sid(mb, content_sid),
                               "content_sid",
                               [op |-> "content_sid", content_sid |-> content_sid])

ContentVariables ==
    \E content_variables \in VariableMaps :
        SetterOnMessageBuilder(MessageBuilder_content_variables(mb, content_variables),
                               "content_variables",
                               [op |-> "content_variables",
                                content_variables |-> content_variables])

From ==
    \E from \in Froms :
        SetterOnMessageBuilder(MessageBuilder_from(mb, from),
                               "from", [op |-> "from", from |-> from])

MediaUrl ==
    \E media_url \in Urls :
        SetterOnMessageBuilder(MessageBuilder_media_url(mb, media_url),
                               "media_urls",
                               [op |-> "media_url", media_url |-> media_url])

MediaUrls ==
    \E media_urls \in UrlLists :
        SetterOnMessageBuilder(MessageBuilder_media_urls(mb, media_urls),
                               "media_urls",
                               [op |-> "media_urls", media_urls |-> media_urls])

MessagingServiceSid ==
    \E messaging_service_sid \in ServiceSids :
        SetterOnMessageBuilder(
            MessageBuilder_messaging_service_sid(mb, messaging_service_sid),
            "messaging_service_sid",
            [op |-> "messaging_service_sid",
             messaging_service_sid |-> messaging_service_sid])

To ==
    \E to \in Tos :
        SetterOnMessageBuilder(MessageBuilder_to(mb, to), "to", [op |-> "to", to |-> to])

MessageBuild ==
    /\ mb # Moved
    /\ mbBefore' = mb
    /\ mbRet' = MessageBuilder_build(mb)
    /\ mb' = MessageBuilder_after_build(mb)
    /\ UNCHANGED <<mbLast, clientVars, sendVars>>

NextMessage ==
    \/ MessageBuilderNew
    \/ Body
    \/ ContentSid
    \/ ContentVariables
    \/ From
    \/ MediaUrl
    \/ MediaUrls
    \/ MessagingServiceSid
    \/ To
    \/ MessageBuild

---------------------------------------------------------------------------
(* client.rs: Client::send_message                                         *)

NoRequest == [tag |-> "NoRequest"]
NoTransport == [tag |-> "NoTransport"]

\* What reqwest can hand back from .send().await: Err(reqwest::Error), or
\* Ok(Response) with a status code.
ReqwestErrors == {"connect", "timeout"}
StatusCodes == {100, 199, 200, 201, 299, 300, 401, 500}
Response(status) == [status |-> status]
TransportResults ==
    {Err(e) : e \in ReqwestErrors} \cup {Ok(Response(c)) : c \in StatusCodes}

\* StatusCode::is_success
is_success(status) == 200 <= status /\ status <= 299

Network(error) == [kind |-> "Network", error |-> error]
Twilio(code) == [kind |-> "Twilio", code |-> code]
Unit == "()"

\* if let Some(v) = field { params.push((name, v)) }
PushIfSome(name, field) == IF is_some(field) THEN << <<name, field.val>> >> ELSE <<>>

\* The loop walking the list from its far end.
PushMediaUrls_reversed(media_urls) ==
    IF is_some(media_urls)
    THEN [i \in 1..Len(media_urls.val) |->
            <<"MediaUrl", media_urls.val[Len(media_urls.val) + 1 - i]>>]
    ELSE <<>>

\* for media_url in media_urls { params.push(("MediaUrl", media_url)) }
PushMediaUrls(media_urls) ==
    IF is_some(media_urls)
    THEN [i \in 1..Len(media_urls.val) |-> <<"MediaUrl", media_urls.val[i]>>]
    ELSE <<>>

\* The Vec<(&str, &str)> handed to .form().
Params(message) ==
    << <<"To", message.to>> >>
    \o PushIfSome("From", message.from)
    \o PushIfSome("MessagingServiceSid", message.messaging_service_sid)
    \o PushIfSome("Body", message.body)
    \o PushIfSome("ContentSid", message.content_sid)
    \o PushMediaUrls(message.media_urls)

\* The account SID used as the user name in both arms of the match.
BasicAuth_sid_as_user(self) ==
    IF self.auth.variant = "AccountAuthToken"
    THEN <<self.account_sid, self.auth.token>>
    ELSE <<self.account_sid, self.auth.secret>>

\* (auth_user, auth_pass)
BasicAuth(self) ==
    IF self.auth.variant = "AccountAuthToken"
    THEN <<self.account_sid, self.auth.token>>
    ELSE <<self.auth.key, self.auth.secret>>

\* format!("https://api.twilio.com/2010-04-01/Accounts/{}/Messages.json", account_sid),
\* kept as the pieces format! joins.
Url(self) ==
    <<"https://api.twilio.com/2010-04-01/Accounts/", self.account_sid, "/Messages.json">>

Post(self, message) ==
    [method |-> "POST",
     url |-> Url(self),
     form |-> Params(message),
     basic_auth |-> BasicAuth(self)]

\* The status test written as status == 200.
SendResult_only_200(result) ==
    IF IsErr(result) THEN Err(Network(result.err))
    ELSE IF result.val.status = 200 THEN Ok(Unit)
    ELSE Err(Twilio(result.val.status))

\* The match on twilio_result and the status test that follow the .await.
SendResult(result) ==
    IF IsErr(result) THEN Err(Network(result.err))
    ELSE IF is_success(result.val.status) THEN Ok(Unit)
    ELSE Err(Twilio(result.val.status))

\* send_message up to the .await: the parameters, the credentials, the POST.
SendMessageCall ==
    /\ sendPc \in {"idle", "done"}
    /\ IsOk(cbRet) /\ IsOk(mbRet)
    /\ calls < MaxSends
    /\ calls' = calls + 1
    /\ request' = Post(cbRet.val, mbRet.val)
    /\ posts' = posts + 1
    /\ twilio_result' = NoTransport
    /\ sendRet' = NoResult
    /\ sendPc' = "awaiting"
    /\ UNCHANGED <<clientVars, messageVars>>

\* send_message posting again, once, when the transport fails.
SendMessageReturn_retries ==
    /\ sendPc = "awaiting"
    /\ \E result \in TransportResults :
        /\ twilio_result' = result
        /\ IF IsErr(result) /\ posts = calls
           THEN /\ posts' = posts + 1
                /\ sendPc' = "awaiting"
                /\ sendRet' = NoResult
           ELSE /\ posts' = posts
                /\ sendPc' = "done"
                /\ sendRet' = SendResult(result)
    /\ UNCHANGED <<request, calls, clientVars, messageVars>>

\* The .await resolves and send_message returns.
SendMessageReturn ==
    /\ sendPc = "awaiting"
    /\ \E result \in TransportResults :
        /\ twilio_result' = result
        /\ sendRet' = SendResult(result)
    /\ sendPc' = "done"
    /\ UNCHANGED <<request, calls, posts, clientVars, messageVars>>

NextSend == SendMessageCall \/ SendMessageReturn

---------------------------------------------------------------------------
(* Specifications of the two builders.                                     *)

InitSend ==
    /\ sendPc = "idle"
    /\ request = NoRequest
    /\ calls = 0
    /\ posts = 0
    /\ twilio_result = NoTransport
    /\ sendRet = NoResult

\* Client::builder() and Message::builder() have just been called.
Init ==
    /\ cb = ClientBuilder_new
    /\ cbBefore = NoSelf
    /\ cbRet = NoResult
    /\ cbPrevRet = NoResult
    /\ cbErrSeen = FALSE
    /\ cbLast = NoClientCalls
    /\ mb = MessageBuilder_new
    /\ mbBefore = NoSelf
    /\ mbRet = NoResult
    /\ mbLast = NoMessageCalls
    /\ InitSend

\* A caller working on a ClientBuilder.
SpecClient == Init /\ [][NextClient]_vars

\* A caller working on a MessageBuilder.
SpecMessage == Init /\ [][NextMessage]_vars

\* A caller working on both builders, in any interleaving.
Next == NextClient \/ NextMessage
Spec == Init /\ [][Next]_vars

\* The calls that can have left a builder's fields as they are.
ScalarCall(field, op) ==
    IF is_none(field) THEN NoCall ELSE (("op" :> op) @@ (op :> field.val))

AuthCall(auth) ==
    IF is_none(auth) THEN NoCall
    ELSE IF auth.val.variant = "APIKey"
    THEN [op |-> "api_key", key |-> auth.val.key, secret |-> auth.val.secret]
    ELSE [op |-> "auth_token", token |-> auth.val.token]

MediaCalls(media_urls) ==
    IF is_none(media_urls) THEN {NoCall}
    ELSE {[op |-> "media_urls", media_urls |-> media_urls.val]}
         \cup (IF Len(media_urls.val) = 1
               THEN {[op |-> "media_url", media_url |-> media_urls.val[1]]}
               ELSE {})

ClientCalls(b) ==
    [account_sid |-> ScalarCall(b.account_sid, "account_sid"), auth |-> AuthCall(b.auth)]

MessageCalls(b) ==
    {[body |-> ScalarCall(b.body, "body"),
      content_sid |-> ScalarCall(b.content_sid, "content_sid"),
      content_variables |-> ScalarCall(b.content_variables, "content_variables"),
      from |-> ScalarCall(b.from, "from"),
      media_urls |-> m,
      messaging_service_sid |-> ScalarCall(b.messaging_service_sid, "messaging_service_sid"),
      to |-> ScalarCall(b.to, "to")] : m \in MediaCalls(b.media_urls)}

\* A caller that has built a Client and a Message: any builder states whose
\* build() returned Ok, right after the two build() calls.
InitBuilt ==
    /\ cb \in {b \in ClientBuilderStates : IsOk(ClientBuilder_build(b))}
    /\ cbBefore = cb
    /\ cbRet = ClientBuilder_build(cb)
    /\ cbPrevRet = NoResult
    /\ cbErrSeen = FALSE
    /\ cbLast = ClientCalls(cb)
    /\ mbBefore \in {b \in MessageBuilderStates : IsOk(MessageBuilder_build(b))}
    /\ mb = MessageBuilder_after_build(mbBefore)
    /\ mbRet = MessageBuilder_build(mbBefore)
    /\ mbLast \in MessageCalls(mbBefore)
    /\ InitSend

\* A caller sending a built Message with a built Client, again and again.
SpecSend == InitBuilt /\ [][NextSend]_vars

---------------------------------------------------------------------------
(* Properties.                                                             *)

(* C1: whenever ClientBuilder::build has just returned, it returned Ok     *)
(* exactly when the builder it looked at had both account_sid and auth     *)
(* set; with account_sid unset it returned NoAccountSidSet (whatever auth  *)
(* was), and it returned NoAuthMethodSet only with account_sid set and     *)
(* auth unset. A field holding Some("") is set.                            *)
C1_ClientBuildOutcome ==
    cbRet # NoResult =>
        LET sid == is_some(cbBefore.account_sid)
            auth == is_some(cbBefore.auth)
        IN /\ IsOk(cbRet) <=> (sid /\ auth)
           /\ IsOk(cbRet) => cbRet.val = [account_sid |-> cbBefore.account_sid.val,
                                          auth |-> cbBefore.auth.val]
           /\ ~sid => cbRet = Err("NoAccountSidSet")
           /\ (sid /\ ~auth) => cbRet = Err("NoAuthMethodSet")
           /\ cbRet = Err("NoAuthMethodSet") => (sid /\ ~auth)

\* build() has returned Ok for a builder holding only empty strings.
C1_BuiltFromEmptyStrings ==
    /\ IsOk(cbRet)
    /\ cbBefore.account_sid = Some("")
    /\ cbBefore.auth = Some(AccountAuthToken(""))

(* C2: whenever MessageBuilder::build has just returned, it returned Ok    *)
(* exactly when `to` was set, and from or messaging_service_sid was set,   *)
(* and body or content_sid or a NON-EMPTY media list was set; otherwise    *)
(* the error is that of the first failing check, in the order to, sender,  *)
(* content. A builder whose only content is an empty media list gets       *)
(* NoMessageSet.                                                           *)
C2_MessageBuildOutcome ==
    mbRet # NoResult =>
        LET b == mbBefore
            to == is_some(b.to)
            sender == is_some(b.from) \/ is_some(b.messaging_service_sid)
            content == \/ is_some(b.body)
                       \/ is_some(b.content_sid)
                       \/ (is_some(b.media_urls) /\ Len(b.media_urls.val) > 0)
        IN /\ IsOk(mbRet) <=> (to /\ sender /\ content)
           /\ ~to => mbRet = Err("NoToSet")
           /\ (to /\ ~sender) => mbRet = Err("NoSenderSet")
           /\ (to /\ sender /\ ~content) => mbRet = Err("NoMessageSet")

(* C3: the form parameters of the POST are ("To", to), then ("From", v),   *)
(* ("MessagingServiceSid", v), ("Body", v), ("ContentSid", v) for each of  *)
(* those fields that is set, in that order, then one ("MediaUrl", u) per   *)
(* element of media_urls in list order, and nothing else:                  *)
(* content_variables is never among them.                                  *)
C3_FormParameters ==
    request # NoRequest =>
        LET form == request.form
            m == mbRet.val
            media == IF is_some(m.media_urls) THEN m.media_urls.val ELSE <<>>
            scalars == {<<"From", m.from>>,
                        <<"MessagingServiceSid", m.messaging_service_sid>>,
                        <<"Body", m.body>>,
                        <<"ContentSid", m.content_sid>>}
            Rank(name) == CASE name = "To" -> 1
                            [] name = "From" -> 2
                            [] name = "MessagingServiceSid" -> 3
                            [] name = "Body" -> 4
                            [] name = "ContentSid" -> 5
                            [] name = "MediaUrl" -> 6
                            [] OTHER -> 0
            n == Len(form)
        IN /\ n = 1 + Cardinality({f \in scalars : is_some(f[2])}) + Len(media)
           /\ form[1] = <<"To", m.to>>
           /\ \A i \in 1..n : Rank(form[i][1]) > 0
           /\ \A i, j \in 1..n :
                i < j => \/ Rank(form[i][1]) < Rank(form[j][1])
                         \/ (form[i][1] = "MediaUrl" /\ form[j][1] = "MediaUrl")
           /\ \A f \in scalars :
                IF is_some(f[2])
                THEN \E i \in 1..n : form[i] = <<f[1], f[2].val>>
                ELSE \A i \in 1..n : form[i][1] # f[1]
           /\ \A k \in 1..Len(media) : form[n - Len(media) + k] = <<"MediaUrl", media[k]>>

\* A POST has gone out for a message with every field set, content_variables
\* included, and two different media URLs.
C3_EveryFieldSent ==
    /\ request # NoRequest
    /\ is_some(mbRet.val.from) /\ is_some(mbRet.val.messaging_service_sid)
    /\ is_some(mbRet.val.body) /\ is_some(mbRet.val.content_sid)
    /\ is_some(mbRet.val.content_variables)
    /\ mbRet.val.media_urls = Some(<<"u2", "u1">>)
    /\ Len(request.form) = 7

(* C4: the basic-auth pair of the POST is (account_sid, token) for a       *)
(* client holding AccountAuthToken(token) and (key, secret) for a client   *)
(* holding APIKey(key, secret), whatever account_sid is; in both cases the *)
(* URL path carries the client's account_sid.                              *)
C4_BasicAuthPair ==
    request # NoRequest =>
        LET c == cbRet.val
        IN /\ c.auth.variant = "AccountAuthToken" =>
                request.basic_auth = <<c.account_sid, c.auth.token>>
           /\ c.auth.variant = "APIKey" =>
                request.basic_auth = <<c.auth.key, c.auth.secret>>
           /\ request.url =
                <<"https://api.twilio.com/2010-04-01/Accounts/", c.account_sid,
                  "/Messages.json">>

\* A POST has gone out for an API-key client whose account SID differs from its key.
C4_ApiKeyPost ==
    /\ request # NoRequest
    /\ cbRet.val = [account_sid |-> "AC1", auth |-> APIKey("KEY", "SECRET")]
    /\ request.basic_auth = <<"KEY", "SECRET">>

(* C5: when send_message has returned, its result follows from the         *)
(* transport result alone: Err(Network(cause)) when the exchange failed,   *)
(* Ok(()) when it completed with a status in 200..=299, Err(Twilio(s))     *)
(* with that very s for any other status; exactly one of the three holds.  *)
C5_SendOutcome ==
    sendPc = "done" =>
        LET failed == IsErr(twilio_result)
            status == twilio_result.val.status
            network == IsErr(sendRet) /\ sendRet.err.kind = "Network"
            twilio == IsErr(sendRet) /\ sendRet.err.kind = "Twilio"
        IN /\ failed => sendRet = Err([kind |-> "Network", error |-> twilio_result.err])
           /\ (~failed /\ status \in 200..299) => sendRet = Ok(Unit)
           /\ (~failed /\ status \notin 200..299) =>
                sendRet = Err([kind |-> "Twilio", code |-> status])
           /\ Cardinality({x \in {<<1, network>>, <<2, twilio>>, <<3, IsOk(sendRet)>>} :
                             x[2]}) = 1

\* send_message has returned Ok(()) for a 2xx status other than 200.
C5_Sent201 ==
    /\ sendPc = "done"
    /\ twilio_result = Ok(Response(201))
    /\ sendRet = Ok(Unit)

(* C6: the media list stored in the MessageBuilder is the argument of the  *)
(* most recent media_url / media_urls call: [x] after media_url(x), seq    *)
(* after media_urls(seq), whatever list was stored before, and None when   *)
(* neither has been called. A built Message carries that list.             *)
C6_LastMediaCallWins ==
    LET call == mbLast.media_urls
        stored == CASE call.op = "media_url" -> Some(<<call.media_url>>)
                    [] call.op = "media_urls" -> Some(call.media_urls)
                    [] OTHER -> None
    IN /\ mb # Moved => mb.media_urls = stored
       /\ IsOk(mbRet) => mbRet.val.media_urls = stored

\* The builder holds the one-element list of a media_url call.
C6_SingleUrlStored ==
    /\ mb # Moved
    /\ mbLast.media_urls = [op |-> "media_url", media_url |-> "u2"]
    /\ mb.media_urls = Some(<<"u2">>)

C9_LastAuthCallWins ==
    LET a == cbLast.auth
        s == cbLast.account_sid
    IN /\ cb.auth = CASE a.op = "auth_token" -> Some(AccountAuthToken(a.token))
                      [] a.op = "api_key" -> Some(APIKey(a.key, a.secret))
                      [] OTHER -> None
       /\ cb.account_sid = IF s.op = "account_sid" THEN Some(s.account_sid) ELSE None
       /\ IsOk(cbRet) => (cbRet.val.auth = cb.auth.val
                          /\ cbRet.val.account_sid = cb.account_sid.val)

\* A Client has been built from a builder whose last auth call was auth_token.
C9_BuiltWithToken ==
    /\ IsOk(cbRet)
    /\ cbLast.auth = [op |-> "auth_token", token |-> "tok"]
    /\ cbLast.account_sid.op = "account_sid"
    /\ cbRet.val.auth = AccountAuthToken("tok")

(* C10: every send_message call hands exactly one POST to the transport:   *)
(* the POSTs issued always number the calls made, a call that is waiting   *)
(* can return, a call that has returned has a result, and the Client and   *)
(* the Message are still what their builders produced, so that every call  *)
(* issues the same request.                                                *)
C10_OnePostPerCall ==
    /\ posts = calls
    /\ sendPc = "idle" <=> calls = 0
    /\ sendPc = "awaiting" => (sendRet = NoResult /\ ENABLED SendMessageReturn)
    /\ sendPc = "done" => sendRet # NoResult
    /\ cbRet = ClientBuilder_build(cbBefore)
    /\ mbRet = MessageBuilder_build(mbBefore)
    /\ request # NoRequest => request = Post(cbRet.val, mbRet.val)

\* The second send_message call of a Client has returned an error.
C10_SecondSendFailed ==
    /\ calls = 2
    /\ posts = 2
    /\ sendPc = "done"
    /\ IsErr(sendRet)

(* C11: every field of the MessageBuilder holds exactly what the most      *)
(* recent call of its own setter stored (for the media list, of media_url  *)
(* or media_urls), and None when that setter has not been called: a setter *)
(* writes its own field and no other. Every setter can be called on a      *)
(* builder that has not been built, whatever the other fields hold, and    *)
(* only build() returns an error. A successful build() copies every field, *)
(* content_variables included, into the Message, with or without a         *)
(* content SID.                                                            *)
C11_SettersWriteOwnFieldOnly ==
    LET Stored(field) ==
            LET call == mbLast[field]
            IN CASE call.op = "none" -> None
                 [] call.op = "media_url" -> Some(<<call.media_url>>)
                 [] OTHER -> Some(call[call.op])
        fields == {"body", "content_sid", "content_variables", "from",
                   "media_urls", "messaging_service_sid"}
    IN /\ mb # Moved =>
            /\ \A f \in fields \cup {"to"} : mb[f] = Stored(f)
            /\ mbRet = NoResult
            /\ ENABLED To /\ ENABLED From /\ ENABLED MessagingServiceSid
            /\ ENABLED Body /\ ENABLED ContentSid /\ ENABLED ContentVariables
            /\ ENABLED MediaUrl /\ ENABLED MediaUrls
       /\ mbRet # NoResult => mbBefore # NoSelf
       /\ IsOk(mbRet) =>
            /\ \A f \in fields : mbRet.val[f] = Stored(f) /\ mbRet.val[f] = mbBefore[f]
            /\ Some(mbRet.val.to) = Stored("to")

\* A Message has been built with content_variables and no content SID, from
\* a builder whose `to` was set by a to() call.
C11_VariablesWithoutContentSid ==
    /\ IsOk(mbRet)
    /\ mbRet.val.content_variables = Some([name |-> "Ann"])
    /\ is_none(mbRet.val.content_sid)
    /\ mbLast.to = [op |-> "to", to |-> "+15551234567"]
    /\ mbRet.val.to = "+15551234567"

=============================================================================
